---- MODULE Spec2Model ----
(***************************************************************************)
(* Model of the email classification endpoint: process_email (main.py)     *)
(* and AIClient (ai_client.py).                                            *)
(*                                                                         *)
(* Text and file contents are sequences of code points / byte values.      *)
(* The three external collaborators (chardet, the local classification     *)
(* pipeline, the Gemini model) are nondeterministic: every call draws its  *)
(* outcome from a small set covering each kind of outcome the code         *)
(* distinguishes.  Scores are in hundredths (0.5 is 50).                   *)
(***************************************************************************)
EXTENDS Integers, Sequences, FiniteSets, TLC

\* ------------------------------------------------------------------ bounds
MaxFileLen == 2
MaxTextLen == 1

\* --------------------------------------------------------------- constants
\* Python's None for string-valued and object-valued names.
None == "None"
\* A form field that was not posted (Form(None) / File(None)); -1 is neither
\* a code point nor a byte.
Absent == << -1 >>

max_length == 512
ScoreThreshold == 50
ReplacementChar == 65533
ByteOrderMark == << 239, 187, 191 >>

Max(a, b) == IF a >= b THEN a ELSE b

\* Python truthiness of an optional str / optional UploadFile.
Truthy(x) == x # Absent /\ x # << >>

\* ------------------------------------------------------------------ codecs
\* bytes.decode(encoding) of the Python runtime, for the encodings that the
\* handler names or that the detector can report.

\* Length of the UTF-8 sequence introduced by lead byte b1 (0: not a lead).
Utf8SeqLen(b1) ==
    IF b1 < 128 THEN 1
    ELSE IF b1 >= 194 /\ b1 <= 223 THEN 2
    ELSE IF b1 >= 224 /\ b1 <= 239 THEN 3
    ELSE IF b1 >= 240 /\ b1 <= 244 THEN 4
    ELSE 0

\* Is c a legal j-th continuation byte (j >= 1) after lead byte b1?
Utf8ContOk(b1, j, c) ==
    IF j > 1 THEN c >= 128 /\ c <= 191
    ELSE IF b1 = 224 THEN c >= 160 /\ c <= 191
    ELSE IF b1 = 237 THEN c >= 128 /\ c <= 159
    ELSE IF b1 = 240 THEN c >= 144 /\ c <= 191
    ELSE IF b1 = 244 THEN c >= 128 /\ c <= 143
    ELSE c >= 128 /\ c <= 191

\* Number of bytes of the sequence at i that are well formed, given that the
\* first j are, for a sequence of n bytes.
RECURSIVE Utf8ValidLen(_, _, _, _)
Utf8ValidLen(b, i, j, n) ==
    IF j >= n \/ i + j > Len(b) THEN j
    ELSE IF Utf8ContOk(b[i], j, b[i + j]) THEN Utf8ValidLen(b, i, j + 1, n)
    ELSE j

Utf8CodePoint(b, i, n) ==
    IF n = 1 THEN b[i]
    ELSE IF n = 2 THEN (b[i] - 192) * 64 + (b[i + 1] - 128)
    ELSE IF n = 3 THEN (b[i] - 224) * 4096 + (b[i + 1] - 128) * 64 + (b[i + 2] - 128)
    ELSE (b[i] - 240) * 262144 + (b[i + 1] - 128) * 4096
         + (b[i + 2] - 128) * 64 + (b[i + 3] - 128)

\* b[i..].decode('utf-8', errors): errors is "strict" or "replace".
RECURSIVE utf_8_decode(_, _, _)
utf_8_decode(b, i, errors) ==
    IF i > Len(b) THEN [ok |-> TRUE, text |-> << >>]
    ELSE LET n == Utf8SeqLen(b[i])
             k == IF n = 0 THEN 0 ELSE Utf8ValidLen(b, i, 1, n)
         IN  IF n > 0 /\ k = n
             THEN LET rest == utf_8_decode(b, i + n, errors)
                  IN  [ok |-> rest.ok,
                       text |-> << Utf8CodePoint(b, i, n) >> \o rest.text]
             ELSE IF errors = "replace"
             THEN LET rest == utf_8_decode(b, i + Max(1, k), errors)
                  IN  [ok |-> rest.ok, text |-> << ReplacementChar >> \o rest.text]
             ELSE [ok |-> FALSE, text |-> << >>]

\* utf-8-sig: a leading byte order mark is skipped, the rest is utf-8.
utf_8_sig_decode(b) ==
    IF Len(b) >= 3 /\ SubSeq(b, 1, 3) = ByteOrderMark
    THEN utf_8_decode(b, 4, "strict")
    ELSE utf_8_decode(b, 1, "strict")

ascii_decode(b) ==
    IF \A i \in 1..Len(b) : b[i] < 128
    THEN [ok |-> TRUE, text |-> b]
    ELSE [ok |-> FALSE, text |-> << >>]

\* latin-1 / iso-8859-1: every byte is the code point of the same value.
latin_1_decode(b) == [ok |-> TRUE, text |-> b]

\* cp1252: 0x80..0x9F are remapped, five of them are undefined.
Cp1252Undefined == {129, 141, 143, 144, 157}
Cp1252High ==
    << 8364, 0, 8218, 402, 8222, 8230, 8224, 8225,
       710, 8240, 352, 8249, 338, 0, 381, 0,
       0, 8216, 8217, 8220, 8221, 8226, 8211, 8212,
       732, 8482, 353, 8250, 339, 0, 382, 376 >>

cp1252_decode(b) ==
    IF \E i \in 1..Len(b) : b[i] \in Cp1252Undefined
    THEN [ok |-> FALSE, text |-> << >>]
    ELSE [ok |-> TRUE,
          text |-> [i \in 1..Len(b) |->
                      IF b[i] >= 128 /\ b[i] <= 159
                      THEN Cp1252High[b[i] - 127] ELSE b[i]]]

\* The codec registry: name normalisation and aliases; None: unknown name.
CodecOf(encoding) ==
    CASE encoding \in {"utf-8", "UTF-8"} -> "utf_8"
      [] encoding \in {"utf-8-sig", "UTF-8-SIG"} -> "utf_8_sig"
      [] encoding \in {"ascii"} -> "ascii"
      [] encoding \in {"latin-1", "iso-8859-1", "ISO-8859-1"} -> "latin_1"
      [] encoding \in {"cp1252", "Windows-1252"} -> "cp1252"
      [] OTHER -> None

\* content.decode(encoding): kind is "ok", "UnicodeDecodeError" or
\* "LookupError" (unknown encoding).
decode(content, encoding) ==
    LET codec == CodecOf(encoding)
        r == CASE codec = "utf_8" -> utf_8_decode(content, 1, "strict")
               [] codec = "utf_8_sig" -> utf_8_sig_decode(content)
               [] codec = "ascii" -> ascii_decode(content)
               [] codec = "latin_1" -> latin_1_decode(content)
               [] codec = "cp1252" -> cp1252_decode(content)
               [] OTHER -> [ok |-> FALSE, text |-> << >>]
    IN  IF codec = None THEN [kind |-> "LookupError", text |-> Absent]
        ELSE IF r.ok THEN [kind |-> "ok", text |-> r.text]
        ELSE [kind |-> "UnicodeDecodeError", text |-> Absent]

\* --------------------------------------------------- decoding stage (main)
FallbackEncodings == << "utf-8", "utf-8-sig", "latin-1", "cp1252", "iso-8859-1" >>

\* The for loop over the common encodings: the text of the first encoding
\* from position i on that decodes, Absent (Python None) if none does.
RECURSIVE try_common_encodings(_, _)
try_common_encodings(content, i) ==
    IF i > Len(FallbackEncodings) THEN Absent
    ELSE LET r == decode(content, FallbackEncodings[i])
         IN  IF r.kind = "ok" THEN r.text
             ELSE try_common_encodings(content, i + 1)

\* The except (ImportError, UnicodeDecodeError) block.
fallback_decode(content) ==
    LET t == try_common_encodings(content, 1)
    IN  IF t # Absent THEN t
        ELSE utf_8_decode(content, 1, "replace").text

\* Which exceptions of the detection attempt the except clause catches.
CaughtByFallback(kind) == kind \in {"ImportError", "UnicodeDecodeError"}

\* The whole decoding stage for the bytes read from the upload.  detector is
\* the outcome of "import chardet; chardet.detect(content)".  raised names
\* the exception that leaves the stage, None if the stage ends normally.
decode_file(content, detector) ==
    LET encoding == IF detector.encoding # None THEN detector.encoding ELSE "utf-8"
        attempt == IF ~detector.installed
                   THEN [kind |-> "ImportError", text |-> Absent]
                   ELSE decode(content, encoding)
    IN  IF attempt.kind = "ok" THEN [raised |-> None, email_text |-> attempt.text]
        ELSE IF CaughtByFallback(attempt.kind)
        THEN [raised |-> None, email_text |-> fallback_decode(content)]
        ELSE [raised |-> attempt.kind, email_text |-> Absent]

\* ---------------------------------------------------------------- AIClient
\* str.lower() on the strings that reach it.
Lower(s) ==
    CASE s \in {"Produtivo", "PRODUTIVO"} -> "produtivo"
      [] s \in {"Improdutivo", "IMPRODUTIVO"} -> "improdutivo"
      [] s = "LABEL_1" -> "label_1"
      [] s = "Erro ao classificar" -> "erro ao classificar"
      [] OTHER -> s

\* str.strip() on the reply texts of GeminiTexts.
Strip(s) ==
    CASE s = " Claro, podemos marcar. " -> "Claro, podemos marcar."
      [] s = "  " -> ""
      [] OTHER -> s

\* dict.get(key, default)
Get(d, key, default) == IF key \in DOMAIN d THEN d[key] ELSE default

\* generate_content: o is the outcome of self.classifier(contents), which
\* either raises or returns a list of dicts.
generate_content(contents, o) ==
    IF o.raises THEN [kind |-> "None"]
    ELSE IF Len(o.value) > 0 THEN [kind |-> "dict", dict |-> o.value[1]]
    ELSE [kind |-> "list"]

classify_productivity(text, o) ==
    LET t == IF Len(text) > max_length THEN SubSeq(text, 1, max_length) ELSE text
        result == generate_content(t, o)
    IN  IF result.kind = "None" THEN "Erro ao classificar"
        ELSE IF result.kind # "dict" THEN "Improdutivo"  \* .get raises, except branch
        ELSE LET label == Lower(Get(result.dict, "label", ""))
                 score == Get(result.dict, "score", 0)
             IN  IF label = "produtivo" THEN "Produtivo"
                 ELSE IF label = "improdutivo" THEN "Improdutivo"
                 ELSE IF score > ScoreThreshold THEN "Produtivo"
                 ELSE "Improdutivo"

\* The parts of the prompt that vary.
build_prompt(text, context, classification) ==
    [system_instruction |->
        IF classification # None /\ Lower(classification) = "produtivo"
        THEN "produtivo" ELSE "other",
     text |-> text,
     context |-> IF context # None /\ context # "" THEN context ELSE None,
     classification |-> classification]

\* _generate_gemini_response: g is the outcome of
\* self.gemini_model.generate_content(prompt).
generate_gemini_response(text, context, classification, g) ==
    IF g.raises THEN "Erro ao gerar resposta: upstream error"
    ELSE IF g.text # "" THEN Strip(g.text)
    ELSE "Nao foi possivel gerar uma resposta adequada."

\* The gate of generate_response.
Withheld(force_response, classification) ==
    ~force_response /\ Lower(classification) = "improdutivo"

\* generate_response: model is self.gemini_model, o the outcome of the
\* classifier call it makes, g the outcome of the Gemini call it makes.
\* calls lists the external calls made, in order.
generate_response(model, text, context, force_response, o, g) ==
    IF model = None
    THEN [result |-> [success |-> FALSE,
                      message |-> "Geracao de resposta nao disponivel.",
                      response |-> None,
                      classification |-> None],
          calls |-> << >>]
    ELSE LET classification == classify_productivity(text, o)
             c1 == [callee |-> "classifier", arg |-> text,
                    failed |-> o.raises \/ Len(o.value) = 0,
                    returned |-> classification]
         IN  IF Withheld(force_response, classification)
             THEN [result |-> [success |-> TRUE,
                               message |-> "Mensagem classificada como improdutiva.",
                               response |-> None,
                               classification |-> classification],
                   calls |-> << c1 >>]
             ELSE LET response_text ==
                          generate_gemini_response(text, context, classification, g)
                      c2 == [callee |-> "gemini",
                             arg |-> build_prompt(text, context, classification),
                             failed |-> g.raises, returned |-> response_text]
                  IN  [result |-> [success |-> TRUE,
                                   message |-> "Resposta gerada com sucesso",
                                   response |-> response_text,
                                   classification |-> classification],
                       calls |-> << c1, c2 >>]

\* analyze_and_respond, lines 227-235: the dict it returns.
analyze_result(text, classification, response_result) ==
    [text |-> text,
     classification |-> [label |-> classification,
                         is_productive |-> Lower(classification) = "produtivo"],
     response |-> response_result]

\* process_email, lines 105-121: the body of the success response.
format_response(text, result) ==
    [success |-> TRUE,
     text |-> text,
     classification |-> [category |-> result.classification.label,
                         is_productive |-> result.classification.is_productive],
     response |-> [generated |-> result.response.success,
                   message |-> result.response.message,
                   text |-> result.response.response]]

\* ------------------------------------------------------------------ inputs
BoundedSeq(S, n) == UNION { [1..k -> S] : k \in 0..n }

TextAlphabet == {65, 233}
ByteAlphabet == {65, 129, 169, 195}

EmailTexts == {Absent} \cup BoundedSeq(TextAlphabet, MaxTextLen)
EmailFiles == {Absent} \cup BoundedSeq(ByteAlphabet, MaxFileLen)
                  \cup {ByteOrderMark, ByteOrderMark \o << 65 >>}
Contexts == {None, "ctx"}

\* Outcomes of "import chardet; chardet.detect(content)".
DetectorOutcomes ==
    {[installed |-> FALSE, encoding |-> None]} \cup
    {[installed |-> TRUE, encoding |-> e] :
        e \in {None, "utf-8", "ascii", "Windows-1252", "UTF-8-SIG", "EUC-TW"}}

\* Outcomes of self.classifier(contents).
PipelineDicts ==
    {[label |-> l, score |-> s] :
        l \in {"Produtivo", "IMPRODUTIVO", "LABEL_1"}, s \in {20, 50, 90}}
    \cup {[score |-> 90]}
PipelineOutcomes ==
    {[raises |-> TRUE, value |-> << >>], [raises |-> FALSE, value |-> << >>]}
    \cup {[raises |-> FALSE, value |-> << d >>] : d \in PipelineDicts}

\* Outcomes of self.gemini_model.generate_content(prompt).
GeminiTexts == {"", "  ", "Claro, podemos marcar.", " Claro, podemos marcar. "}
GeminiOutcomes ==
    {[raises |-> TRUE, text |-> ""]} \cup
    {[raises |-> FALSE, text |-> t] : t \in GeminiTexts}

\* ------------------------------------------------------------------- state
VARIABLES
    ai_client,       \* EmailClassifierAPI.ai_client: "AIClient" or None
    gemini_model,    \* AIClient.gemini_model: "GenerativeModel" or None
    pc,              \* stage of the request being handled
    request,         \* the form fields as posted
    email_text,      \* the handler's local email_text
    classification,  \* analyze_and_respond's local classification
    result,          \* the dict analyze_and_respond returned
    body,            \* the body of the success response
    status,          \* HTTP status of the response, 0 while there is none
    exception,       \* the exception that ended the handler, None if none
    calls            \* the external calls made for this request, in order

vars == << ai_client, gemini_model, pc, request, email_text, classification,
           result, body, status, exception, calls >>

NoRequest == [email_text |-> Absent, email_file |-> Absent, context |-> None]
NoResult ==
    [text |-> Absent,
     classification |-> [label |-> None, is_productive |-> FALSE],
     response |-> [success |-> FALSE, message |-> None, response |-> None,
                   classification |-> None]]
NoBody ==
    [success |-> FALSE,
     text |-> Absent,
     classification |-> [category |-> None, is_productive |-> FALSE],
     response |-> [generated |-> FALSE, message |-> None, text |-> None]]

\* No request in progress.
Idle ==
    /\ pc = "Idle"
    /\ request = NoRequest
    /\ email_text = Absent
    /\ classification = None
    /\ result = NoResult
    /\ body = NoBody
    /\ status = 0
    /\ exception = None
    /\ calls = << >>

\* After EmailClassifierAPI.__init__: AIClient(...) either was constructed
\* (with or without a Gemini model) or raised and ai_client is None.
Init ==
    /\ ai_client \in {"AIClient", None}
    /\ gemini_model \in {"GenerativeModel", None}
    /\ ai_client = None => gemini_model = None
    /\ Idle

\* ----------------------------------------------------------------- actions
\* The availability check left out.
ClientMissing_Omitted(client) == FALSE
\* "if not self.ai_client"
ClientMissing(client) == client = None
\* "if not email_text and email_file"
FromFile(text, file) == ~Truthy(text) /\ file # Absent
\* Only the empty string is taken for missing input, not None.
MissingInput_EmptyOnly(text, file) == text = << >>
\* "elif not email_text"
MissingInput(text, file) == ~Truthy(text)

Reject(code, exc) ==
    /\ pc' = "Error"
    /\ status' = code
    /\ exception' = exc

\* process_email up to the end of "await email_file.read()".
Receive(text, file, ctx) ==
    /\ pc = "Idle"
    /\ request' = [email_text |-> text, email_file |-> file, context |-> ctx]
    /\ email_text' = text
    /\ IF ClientMissing(ai_client)
       THEN Reject(503, "HTTPException") /\ UNCHANGED calls
       ELSE IF FromFile(text, file)
       THEN /\ calls' = Append(calls, [callee |-> "read", arg |-> file,
                                       failed |-> FALSE, returned |-> None])
            /\ pc' = "Decoding"
            /\ UNCHANGED << status, exception >>
       ELSE IF MissingInput(text, file)
       THEN Reject(400, "HTTPException") /\ UNCHANGED calls
       ELSE /\ pc' = "Classifying"
            /\ UNCHANGED << status, exception, calls >>
    /\ UNCHANGED << ai_client, gemini_model, classification, result, body >>

\* process_email, the decoding of the uploaded bytes.
DecodeFile(detector) ==
    /\ pc = "Decoding"
    /\ LET content == request.email_file
           d == decode_file(content, detector)
       IN  /\ calls' = Append(calls, [callee |-> "chardet", arg |-> content,
                                      failed |-> ~detector.installed,
                                      returned |-> detector.encoding])
           /\ IF d.raised # None
              THEN Reject(500, d.raised) /\ UNCHANGED email_text
              ELSE /\ email_text' = d.email_text
                   /\ pc' = "Classifying"
                   /\ UNCHANGED << status, exception >>
    /\ UNCHANGED << ai_client, gemini_model, request, classification, result, body >>

\* analyze_and_respond, "classification = self.classify_productivity(text)".
Classify(o) ==
    /\ pc = "Classifying"
    /\ classification' = classify_productivity(email_text, o)
    /\ calls' = Append(calls, [callee |-> "classifier", arg |-> email_text,
                               failed |-> o.raises \/ Len(o.value) = 0,
                               returned |-> classification'])
    /\ pc' = "Responding"
    /\ UNCHANGED << ai_client, gemini_model, request, email_text, result, body,
                    status, exception >>

\* analyze_and_respond from "response_result = self.generate_response(...)"
\* to its return, and process_email's formatting of the success response.
Respond(o, g) ==
    /\ pc = "Responding"
    /\ LET r == generate_response(gemini_model, email_text, request.context,
                                  FALSE, o, g)
       IN  /\ result' = analyze_result(email_text, classification, r.result)
           /\ calls' = calls \o r.calls
    /\ body' = format_response(email_text, result')
    /\ status' = 200
    /\ pc' = "Completed"
    /\ UNCHANGED << ai_client, gemini_model, request, email_text, classification,
                    exception >>

\* The response is sent; the process waits for the next request.
NextRequest ==
    /\ pc \in {"Completed", "Error"}
    /\ pc' = "Idle"
    /\ request' = NoRequest
    /\ email_text' = Absent
    /\ classification' = None
    /\ result' = NoResult
    /\ body' = NoBody
    /\ status' = 0
    /\ exception' = None
    /\ calls' = << >>
    /\ UNCHANGED << ai_client, gemini_model >>

Next ==
    \/ \E text \in EmailTexts, file \in EmailFiles, ctx \in Contexts :
           Receive(text, file, ctx)
    \/ \E detector \in DetectorOutcomes : DecodeFile(detector)
    \/ \E o \in PipelineOutcomes : Classify(o)
    \/ \E o \in PipelineOutcomes, g \in GeminiOutcomes : Respond(o, g)
    \/ NextRequest

Spec == Init /\ [][Next]_vars

\* ------------------------------------------------------------------ claims
Labels == {"Produtivo", "Improdutivo"}

\* The calls of this request to one collaborator.
CallsTo(callee) == SelectSeq(calls, LAMBDA c : c.callee = callee)

\* The request posted neither email_text nor email_file.
SuppliesNeither ==
    pc # "Idle" /\ request.email_text = Absent /\ request.email_file = Absent

\* C1: every return value of classify_productivity is "Produtivo" or
\* "Improdutivo", and so is classification.category of every success
\* response.
C1_TwoLabelsOnly ==
    /\ \A i \in 1..Len(calls) :
           calls[i].callee = "classifier" => calls[i].returned \in Labels
    /\ status = 200 => body.classification.category \in Labels

\* C2: when generate_response classified the text as "Improdutivo" (force
\* being false), response.generated is false, response.text is null and
\* Gemini was not called.
C2_UnproductiveNotGenerated ==
    (status = 200 /\ result.response.classification # None
                  /\ Lower(result.response.classification) = "improdutivo")
    => /\ body.response.generated = FALSE
       /\ body.response.text = None
       /\ CallsTo("gemini") = << >>

\* C3: when the Gemini call raised, generate_response reports success false,
\* no reply text and a message that carries the error.
C3_RemoteFailureNotGenerated ==
    (status = 200 /\ \E i \in 1..Len(calls) :
                         calls[i].callee = "gemini" /\ calls[i].failed)
    => /\ result.response.success = FALSE
       /\ result.response.response = None
       /\ result.response.message # "Resposta gerada com sucesso"

\* C4: a classifier call whose pipeline raised or gave no usable result
\* returns "Improdutivo", and the request is then reported "Improdutivo" with
\* no reply generated.
C4_FailClosed ==
    /\ \A i \in 1..Len(calls) :
           (calls[i].callee = "classifier" /\ calls[i].failed)
           => calls[i].returned = "Improdutivo"
    /\ (status = 200 /\ \A i \in 1..Len(calls) :
                            calls[i].callee = "classifier" => calls[i].failed)
       => /\ body.classification.category = "Improdutivo"
          /\ body.response.text = None
          /\ CallsTo("gemini") = << >>

\* C5 as stated: a request that supplies neither email_text nor email_file
\* is rejected with status 400 and no collaborator is called.
C5_MissingInputIs400 ==
    SuppliesNeither => (pc = "Error" /\ status = 400 /\ calls = << >>)

\* C5 amended: a request that supplies neither email_text nor email_file is
\* rejected with an HTTP error, 400 if the AI client exists and 503 if it is
\* None, and no collaborator is called.
C5_MissingInputRejected ==
    SuppliesNeither
    => /\ pc = "Error"
       /\ exception = "HTTPException"
       /\ status = IF ai_client = None THEN 503 ELSE 400
       /\ calls = << >>

C5_Witness ==
    SuppliesNeither /\ pc = "Error" /\ status = 400 /\ ai_client # None

\* C6: once ai_client is None it stays None, and from then on every request
\* ends with status 503 without the file being read and without any call to
\* the detector, the classifier or Gemini.
C6_UnavailableIs503 ==
    [][ai_client = None
       => /\ ai_client' = None
          /\ calls' = << >>
          /\ pc' \in {"Idle", "Error"}
          /\ pc' = "Error" => (status' = 503 /\ exception' = "HTTPException")]_vars

C6_Witness ==
    /\ ai_client = None
    /\ pc = "Error"
    /\ status = 503
    /\ request.email_file # Absent
    /\ calls = << >>

\* C7: the decoding stage never raises: once the detector has been
\* consulted, the handler holds a decoded string and no exception ended it.
C7_DecodingNeverRaises ==
    CallsTo("chardet") # << >>
    => (exception = None /\ pc # "Error" /\ email_text # Absent)

\* C8: the classifier is never invoked on empty text: a request whose text
\* resolved to the empty string does not get past input resolution.
C8_NonEmptyTextOnly ==
    /\ \A i \in 1..Len(calls) :
           calls[i].callee = "classifier" => Truthy(calls[i].arg)
    /\ pc \in {"Classifying", "Responding", "Completed"} => Truthy(email_text)

\* C9: a request that went through analyze_and_respond called the classifier
\* exactly once and Gemini at most once.
C9_ClassifiedOnce ==
    pc = "Completed"
    => (Len(CallsTo("classifier")) = 1 /\ Len(CallsTo("gemini")) <= 1)

\* C10: in a success response the reported label is the label that gated the
\* reply, and response.text is non-null only if the label is "Produtivo".
C10_ReplyAgreesWithLabel ==
    status = 200
    => /\ result.response.classification # None
          => result.response.classification = body.classification.category
       /\ body.response.text # None
          => (body.classification.category = "Produtivo"
              /\ body.classification.is_productive)
====
